---------------------------- MODULE Spec2Model ----------------------------
(***************************************************************************)
(* A model of the table-reconstruction pipeline of jac-wil/table_extraction *)
(*   src/table_utilities.py      OCRBox, load_ocr_json, correct_slope       *)
(*   src/table_reconstruction.py cluster_rows, plot_table_grid_auto         *)
(*                                                                         *)
(* Numbers.  Document coordinates are fractions of the page; the model     *)
(* counts them in thousandths (0.1 is 100), the resolution of the          *)
(* round(.., 3) of plot_table_grid_auto.  Quotients that the code forms     *)
(* (means, centers, interpolated edges) are kept as exact fractions         *)
(* [n |-> numerator, d |-> denominator] with d > 0 and compared by cross    *)
(* multiplication, so no comparison of the code is decided by a rounding    *)
(* the model introduced.  Floating-point rounding error is not modelled.    *)
(***************************************************************************)
EXTENDS Integers, Sequences, FiniteSets, TLC

\* ------------------------------------------------------------------ bounds
MaxLen == 4
MaxVal == 4
MaxTol == 2
MaxRecords == 3
MaxSkewBoxes == 3
MaxGridBoxes == 3

\* ------------------------------------------------------------------- state
\* cluster_rows: arguments, loop position, locals, control point
VARIABLES y_values, tol, yi, current_group, clustered, cl_pc
clusterVars == <<y_values, tol, yi, current_group, clustered, cl_pc>>
\* load_ocr_json: raw["blocks"], loop position, local boxes, outcome
VARIABLES raw_blocks, li, ld_boxes, ld_result, ld_pc
loadVars == <<raw_blocks, li, ld_boxes, ld_result, ld_pc>>
\* correct_slope: argument (and its value at the call), accumulators, result
VARIABLES cs_boxes, cs_given, slope_sums, weight_sums, ck, corrected, cs_pc
correctVars == <<cs_boxes, cs_given, slope_sums, weight_sums, ck, corrected, cs_pc>>
\* plot_table_grid_auto: arguments, computed grid, text positions
VARIABLES g_boxes, headers, footers, grid, gk, placed, g_pc
gridVars == <<g_boxes, headers, footers, grid, gk, placed, g_pc>>
vars == <<clusterVars, loadVars, correctVars, gridVars>>

\* ------------------------------------------------------------- arithmetic
Abs(x) == IF x < 0 THEN -x ELSE x

Rat(n, d) == [n |-> n, d |-> d]
RLt(a, b) == a.n * b.d < b.n * a.d
RLe(a, b) == a.n * b.d <= b.n * a.d
REq(a, b) == a.n * b.d = b.n * a.d
\* |a - b| as a fraction
RDist(a, b) == Rat(Abs(a.n * b.d - b.n * a.d), a.d * b.d)

RECURSIVE SumSeq(_)
SumSeq(s) == IF s = <<>> THEN 0 ELSE s[1] + SumSeq(Tail(s))

\* np.mean of a non-empty list of numbers
Mean(group) == Rat(SumSeq(group), Len(group))

IsSortedSeq(s) == \A i \in 1..(Len(s) - 1) : s[i] <= s[i + 1]

SeqsUpTo(S, n) == UNION {[1..k -> S] : k \in 0..n}

\* ------------------------------------------------------------ cluster_rows


\* the test of the loop body: abs(y - np.mean(current_group)) <= tol
WithinTolLt(y, group, t) == RLt(RDist(Rat(y, 1), Mean(group)), Rat(t, 1))
WithinTol(y, group, t) == RLe(RDist(Rat(y, 1), Mean(group)), Rat(t, 1))

\* one iteration of "for y in y_values[1:]" on the pair (clustered, group)
ClusterIter(st, y, t) ==
    IF WithinTol(y, st.group, t)
    THEN [clustered |-> st.clustered, group |-> Append(st.group, y)]
    ELSE [clustered |-> Append(st.clustered, Mean(st.group)), group |-> <<y>>]

\* the trailing clustered.append(np.mean(current_group))
ClusterEmitNone(st) == st.clustered
ClusterEmitLast(st) == Append(st.clustered, Mean(st.group))

RECURSIVE ClusterFold(_, _, _, _)
ClusterFold(st, ys, i, t) ==
    IF i > Len(ys) THEN st ELSE ClusterFold(ClusterIter(st, ys[i], t), ys, i + 1, t)

\* cluster_rows(y_values, tol) as a function of its arguments
cluster_rows(ys, t) ==
    IF ys = <<>> THEN <<>>
    ELSE ClusterEmitLast(ClusterFold([clustered |-> <<>>, group |-> <<ys[1]>>], ys, 2, t))

ClusterInit ==
    /\ y_values \in SeqsUpTo(0..MaxVal, MaxLen)
    /\ tol \in 0..MaxTol
    /\ yi = 0
    /\ current_group = <<>>
    /\ clustered = <<>>
    /\ cl_pc = "start"

\* lines 44-47: the empty input returns [], otherwise the first value opens a group
ClusterStart ==
    /\ cl_pc = "start"
    /\ IF y_values = <<>>
       THEN /\ cl_pc' = "done"
            /\ UNCHANGED <<yi, current_group>>
       ELSE /\ cl_pc' = "loop"
            /\ yi' = 2
            /\ current_group' = <<y_values[1]>>
    /\ UNCHANGED <<y_values, tol, clustered>>
    /\ UNCHANGED <<loadVars, correctVars, gridVars>>

\* lines 49-54: one iteration of the loop
ClusterLoop ==
    /\ cl_pc = "loop"
    /\ yi <= Len(y_values)
    /\ LET st == ClusterIter([clustered |-> clustered, group |-> current_group],
                             y_values[yi], tol)
       IN /\ clustered' = st.clustered
          /\ current_group' = st.group
    /\ yi' = yi + 1
    /\ UNCHANGED <<y_values, tol, cl_pc>>
    /\ UNCHANGED <<loadVars, correctVars, gridVars>>

\* lines 55-56: the open group is emitted and the list returned
ClusterFinish ==
    /\ cl_pc = "loop"
    /\ yi > Len(y_values)
    /\ clustered' = ClusterEmitLast([clustered |-> clustered, group |-> current_group])
    /\ cl_pc' = "done"
    /\ UNCHANGED <<y_values, tol, yi, current_group>>
    /\ UNCHANGED <<loadVars, correctVars, gridVars>>

ClusterNext == ClusterStart \/ ClusterLoop \/ ClusterFinish


\* ------------------------------------------------------------------ OCRBox
\* Texts are sequences of characters; Lower is str.lower() on the alphabet used.
Lower(c) == CASE c = "T" -> "t" [] c = "O" -> "o" [] c = "C" -> "c" [] c = "U" -> "u"
              [] OTHER -> c
LowerText(t) == [i \in 1..Len(t) |-> Lower(t[i])]

\* Python's "a in b" on strings: a occurs in b as a contiguous run ("" occurs in all)
IsSubstr(a, b) == \E i \in 0..(Len(b) - Len(a)) : SubSeq(b, i + 1, i + Len(a)) = a

Pt(x, y) == <<x, y>>
MkBox(text, coords) == [text |-> text, coords |-> coords]

\* OCRBox.__init__: exactly 4 corners, else ValueError
OCRBox(text, coords) ==
    IF Len(coords) # 4
    THEN [raised |-> TRUE, error |-> "ValueError: OCRBox requires 4 corner coordinates"]
    ELSE [raised |-> FALSE, box |-> MkBox(text, coords)]

Xs(b) == [i \in 1..4 |-> b.coords[i][1]]
Ys(b) == [i \in 1..4 |-> b.coords[i][2]]

\* OCRBox.center: (sum(xs) / 4, sum(ys) / 4)
CenterX(b) == Rat(SumSeq(Xs(b)), 4)
CenterY(b) == Rat(SumSeq(Ys(b)), 4)

\* --------------------------------------------------------- load_ocr_json
\* A block of raw["blocks"] is a dict: keys is the set of keys it holds, and
\* text, coords, x0, y0, x1, y1 their values (read only when the key is held).


RectKeys == {"x0", "y0", "x1", "y1"}

Quad(x0, y0, x1, y1) == <<Pt(x0, y0), Pt(x1, y0), Pt(x1, y1), Pt(x0, y1)>>

Blk(keys, text, coords, r) ==
    [keys |-> keys, text |-> text, coords |-> coords,
     x0 |-> r[1], y0 |-> r[2], x1 |-> r[3], y1 |-> r[4]]

BlockChoices ==
    { Blk({"text", "coords"}, <<"T", "o">>, Quad(100, 100, 180, 130), <<0, 0, 0, 0>>),
      Blk({"coords"}, <<>>, Quad(250, 100, 330, 130), <<0, 0, 0, 0>>),
      Blk({"text"} \cup RectKeys, <<"9">>, <<>>, <<100, 200, 180, 230>>),
      Blk({"text", "coords"}, <<"9">>, <<Pt(100, 100), Pt(180, 100), Pt(180, 130)>>,
          <<0, 0, 0, 0>>),
      Blk({"text", "coords"} \cup RectKeys, <<"c">>,
          <<Pt(100, 100), Pt(180, 100), Pt(180, 130)>>, <<250, 200, 330, 230>>),
      Blk({"text", "x0", "y0", "x1"}, <<"u">>, <<>>, <<100, 200, 180, 0>>),
      Blk({"text"}, <<"c">>, <<>>, <<0, 0, 0, 0>>) }

\* line 66 and line 69: the two accepted shapes
IsPolygon(blk) == "coords" \in blk.keys /\ Len(blk.coords) = 4
IsRect(blk) == RectKeys \subseteq blk.keys

\* blk.get("text", "")
BlkText(blk) == IF "text" \in blk.keys THEN blk.text ELSE <<>>

NoValue == [none |-> TRUE]

\* lines 64-76: the body of the loop on one block; a malformed block raises
LoadIterSkip(boxes, blk) ==
    IF IsPolygon(blk) \/ IsRect(blk)
    THEN LET coords == IF IsPolygon(blk) THEN blk.coords
                       ELSE Quad(blk.x0, blk.y0, blk.x1, blk.y1)
         IN [raised |-> FALSE, boxes |-> Append(boxes, OCRBox(BlkText(blk), coords).box)]
    ELSE [raised |-> FALSE, boxes |-> boxes]

LoadIter(boxes, blk) ==
    IF IsPolygon(blk) \/ IsRect(blk)
    THEN LET coords == IF IsPolygon(blk) THEN blk.coords
                       ELSE Quad(blk.x0, blk.y0, blk.x1, blk.y1)
             made == OCRBox(BlkText(blk), coords)
         IN IF made.raised
            THEN [raised |-> TRUE, error |-> made.error, blk |-> blk]
            ELSE [raised |-> FALSE, boxes |-> Append(boxes, made.box)]
    ELSE [raised |-> TRUE, error |-> "ValueError: Unrecognized OCR block format", blk |-> blk]

LoadInit ==
    /\ raw_blocks \in SeqsUpTo(BlockChoices, MaxRecords)
    /\ li = 1
    /\ ld_boxes = <<>>
    /\ ld_result = [kind |-> "running"]
    /\ ld_pc = "loop"

\* one iteration of "for blk in raw['blocks']"; an exception ends the call with
\* no return value, the local list boxes is dropped
LoadStep ==
    /\ ld_pc = "loop"
    /\ li <= Len(raw_blocks)
    /\ LET r == LoadIter(ld_boxes, raw_blocks[li])
       IN IF r.raised
          THEN /\ ld_result' = [kind |-> "raised", error |-> r.error, blk |-> r.blk,
                                index |-> li, value |-> NoValue]
               /\ ld_pc' = "done"
               /\ UNCHANGED <<li, ld_boxes>>
          ELSE /\ ld_boxes' = r.boxes
               /\ li' = li + 1
               /\ UNCHANGED <<ld_result, ld_pc>>
    /\ UNCHANGED raw_blocks
    /\ UNCHANGED <<clusterVars, correctVars, gridVars>>

\* line 78: return boxes
LoadReturn ==
    /\ ld_pc = "loop"
    /\ li > Len(raw_blocks)
    /\ ld_result' = [kind |-> "returned", value |-> ld_boxes]
    /\ ld_pc' = "done"
    /\ UNCHANGED <<raw_blocks, li, ld_boxes>>
    /\ UNCHANGED <<clusterVars, correctVars, gridVars>>

LoadNext == LoadStep \/ LoadReturn


\* ----------------------------------------------------------- correct_slope
\* Fixed point: lengths in thousandths, slopes and the sine and cosine of the
\* correction angle in thousandths of one (Scale), rounded to the nearest.
Scale == 1000

RoundDiv(a, b) == (2 * a + b) \div (2 * b)

RECURSIVE ISqrtIn(_, _, _)
ISqrtIn(n, lo, hi) ==
    IF lo >= hi THEN lo
    ELSE LET mid == (lo + hi + 1) \div 2
         IN IF mid * mid <= n THEN ISqrtIn(n, mid, hi) ELSE ISqrtIn(n, lo, mid - 1)
ISqrt(n) == ISqrtIn(n, 0, 46340)

\* OCRBox.width: length of the top edge coords[0] -> coords[1]
Width(b) ==
    LET dx == b.coords[2][1] - b.coords[1][1]
        dy == b.coords[2][2] - b.coords[1][2]
    IN ISqrt(dx * dx + dy * dy)

\* OCRBox.height: length of the left edge coords[0] -> coords[3]
Height(b) ==
    LET dx == b.coords[4][1] - b.coords[1][1]
        dy == b.coords[4][2] - b.coords[1][2]
    IN ISqrt(dx * dx + dy * dy)

\* OCRBox.slope: dy / max(x1 - x0, 1e-6), in thousandths.  1e-6 of the page is
\* 1/Scale of a model unit, so a run below one unit is floored to 1/Scale.
Slope(b) ==
    LET dx == b.coords[2][1] - b.coords[1][1]
        dy == b.coords[2][2] - b.coords[1][2]
    IN IF dx >= 1 THEN RoundDiv(dy * Scale, dx) ELSE dy * Scale * Scale

Half == Rat(Scale, 2)

\* get_quadrant(cx, cy)
get_quadrant(cx, cy) ==
    IF RLt(cx, Half) /\ RLt(cy, Half) THEN 0
    ELSE IF ~RLt(cx, Half) /\ RLt(cy, Half) THEN 1
    ELSE IF RLt(cx, Half) /\ ~RLt(cy, Half) THEN 2
    ELSE 3

QuadrantOf(b) == get_quadrant(CenterX(b), CenterY(b))

\* cos(-atan(s / w)) and sin(-atan(s / w)) in thousandths, for the weighted slope
\* sum s (thousandths times length) and the weight sum w; angle 0 when w = 0
Rotation(s, w) ==
    IF w <= 0 THEN [cos |-> Scale, sin |-> 0]
    ELSE LET run == w * Scale
             big == IF Abs(s) > run THEN Abs(s) ELSE run
             g   == (big \div 20000) + 1
             a   == s \div g
             r   == run \div g
             hyp == ISqrt(a * a + r * r)
         IN [cos |-> RoundDiv(r * Scale, hyp), sin |-> -RoundDiv(a * Scale, hyp)]

\* lines 116-119: one corner turned about (0.5, 0.5)
RotatePoint(p, rot) ==
    LET x_shift == p[1] - (Scale \div 2)
        y_shift == p[2] - (Scale \div 2)
        x_rot == RoundDiv(x_shift * rot.cos - y_shift * rot.sin, Scale)
        y_rot == RoundDiv(x_shift * rot.sin + y_shift * rot.cos, Scale)
    IN Pt(x_rot + (Scale \div 2), y_rot + (Scale \div 2))



SkewBoxChoices ==
    { MkBox(<<"T", "o">>, <<Pt(100, 100), Pt(180, 104), Pt(180, 134), Pt(100, 130)>>),
      MkBox(<<"9">>, <<Pt(600, 100), Pt(680, 96), Pt(680, 126), Pt(600, 130)>>),
      MkBox(<<>>, Quad(100, 600, 180, 630)),
      MkBox(<<"c">>, <<Pt(700, 700), Pt(700, 702), Pt(700, 732), Pt(700, 730)>>),
      MkBox(<<"9">>, <<Pt(300, 200), Pt(460, 192), Pt(460, 222), Pt(300, 230)>>) }

\* lines 107-121: the body of the second loop on box k.  It reads the box and
\* builds a new list of corners and a new OCRBox; the input list is not written.
CorrectIterInPlace(boxes, out, k, ssum, wsum) ==
    LET b   == boxes[k]
        q   == QuadrantOf(b)
        rot == Rotation(ssum[q], wsum[q])
        new_coords == [i \in 1..4 |-> RotatePoint(b.coords[i], rot)]
    IN [boxes |-> [boxes EXCEPT ![k] = MkBox(b.text, new_coords)], corrected |-> out]

CorrectIter(boxes, out, k, ssum, wsum) ==
    LET b   == boxes[k]
        q   == QuadrantOf(b)
        rot == Rotation(ssum[q], wsum[q])
        new_coords == [i \in 1..4 |-> RotatePoint(b.coords[i], rot)]
    IN [boxes |-> boxes, corrected |-> Append(out, OCRBox(b.text, new_coords).box)]

CorrectInit ==
    /\ cs_boxes \in SeqsUpTo(SkewBoxChoices, MaxSkewBoxes)
    /\ cs_given = cs_boxes
    /\ slope_sums = [q \in 0..3 |-> 0]
    /\ weight_sums = [q \in 0..3 |-> 0]
    /\ ck = 1
    /\ corrected = <<>>
    /\ cs_pc = "estimate"

\* lines 96-99: one iteration of the first loop
EstimateStep ==
    /\ cs_pc = "estimate"
    /\ ck <= Len(cs_boxes)
    /\ LET b == cs_boxes[ck]
           q == QuadrantOf(b)
       IN /\ slope_sums' = [slope_sums EXCEPT ![q] = @ + Slope(b) * Width(b)]
          /\ weight_sums' = [weight_sums EXCEPT ![q] = @ + Width(b)]
    /\ ck' = ck + 1
    /\ UNCHANGED <<cs_boxes, cs_given, corrected, cs_pc>>
    /\ UNCHANGED <<clusterVars, loadVars, gridVars>>

\* lines 101-106: the averages are formed, the second loop starts
EstimateDone ==
    /\ cs_pc = "estimate"
    /\ ck > Len(cs_boxes)
    /\ ck' = 1
    /\ cs_pc' = "correct"
    /\ UNCHANGED <<cs_boxes, cs_given, slope_sums, weight_sums, corrected>>
    /\ UNCHANGED <<clusterVars, loadVars, gridVars>>

CorrectStep ==
    /\ cs_pc = "correct"
    /\ ck <= Len(cs_boxes)
    /\ LET r == CorrectIter(cs_boxes, corrected, ck, slope_sums, weight_sums)
       IN /\ cs_boxes' = r.boxes
          /\ corrected' = r.corrected
    /\ ck' = ck + 1
    /\ UNCHANGED <<cs_given, slope_sums, weight_sums, cs_pc>>
    /\ UNCHANGED <<clusterVars, loadVars, gridVars>>

\* line 123: return corrected
CorrectReturn ==
    /\ cs_pc = "correct"
    /\ ck > Len(cs_boxes)
    /\ cs_pc' = "done"
    /\ UNCHANGED <<cs_boxes, cs_given, slope_sums, weight_sums, ck, corrected>>
    /\ UNCHANGED <<clusterVars, loadVars, gridVars>>

CorrectNext == EstimateStep \/ EstimateDone \/ CorrectStep \/ CorrectReturn


\* ---------------------------------------------------- plot_table_grid_auto
\* The drawing calls on ax are not modelled: the grid and the position at which
\* each box's text is placed are.


\* tol=0.02 of the call at line 161, in thousandths
RowTol == 20

RECURSIVE MinSeq(_)
MinSeq(s) == IF Len(s) = 1 THEN s[1]
             ELSE LET m == MinSeq(Tail(s)) IN IF s[1] <= m THEN s[1] ELSE m
RECURSIVE MaxSeq(_)
MaxSeq(s) == IF Len(s) = 1 THEN s[1]
             ELSE LET m == MaxSeq(Tail(s)) IN IF s[1] >= m THEN s[1] ELSE m

RECURSIVE Insert(_, _)
Insert(x, s) == IF s = <<>> THEN <<x>>
                ELSE IF x <= s[1] THEN <<x>> \o s ELSE <<s[1]>> \o Insert(x, Tail(s))
\* sorted(list)
RECURSIVE Sorted(_)
Sorted(s) == IF s = <<>> THEN <<>> ELSE Insert(s[1], Sorted(Tail(s)))

\* sorted(set of numbers)
RECURSIVE SortedSet(_)
SortedSet(S) == IF S = {} THEN <<>>
                ELSE LET m == CHOOSE x \in S : \A y \in S : x <= y
                     IN <<m>> \o SortedSet(S \ {m})

\* a set of list positions, in list order
RECURSIVE SeqOfSet(_)
SeqOfSet(S) == IF S = {} THEN <<>>
               ELSE LET m == CHOOSE x \in S : \A y \in S : x <= y
                    IN <<m>> \o SeqOfSet(S \ {m})

\* line 146: b.text.lower() and any(b.text.lower() in h.lower() for h in headers)
InHeaderBoxes(b, hs) ==
    /\ LowerText(b.text) # <<>>
    /\ \E i \in 1..Len(hs) : IsSubstr(LowerText(b.text), LowerText(hs[i]))

\* lines 157 and 158: any(h.lower() in b.text.lower() for h in labels)
ContainsLabel(b, labels) ==
    \E i \in 1..Len(labels) : IsSubstr(LowerText(labels[i]), LowerText(b.text))

\* line 146: the positions in boxes of header_boxes
HeaderBoxes(boxes, hs) == {i \in 1..Len(boxes) : InHeaderBoxes(boxes[i], hs)}

\* lines 157, 158: the positions of the boxes the min and the max range over
LabelBoxes(boxes, labels) == {i \in 1..Len(boxes) : ContainsLabel(boxes[i], labels)}

\* np.linspace(start, stop, num) for integer start and stop
LinspaceOpen(start, stop, num) ==
    [i \in 1..num |-> Rat(start * num + (i - 1) * (stop - start), num)]
Linspace(start, stop, num) ==
    IF num = 1 THEN <<Rat(start, 1)>>
    ELSE [i \in 1..num |-> Rat(start * (num - 1) + (i - 1) * (stop - start), num - 1)]

\* round(x, 3): to the nearest thousandth, a tie to the even one
Round3(r) ==
    LET q == r.n \div r.d
        rem == r.n % r.d
    IN IF 2 * rem < r.d THEN q
       ELSE IF 2 * rem > r.d THEN q + 1
       ELSE IF q % 2 = 0 THEN q ELSE q + 1

\* line 160: (header_top*1.2) < b.center[1] < (footer_bottom*.8)
InItemBandBody(b, header_top, footer_bottom) ==
    /\ RLt(Rat(12 * header_top, 10), CenterY(b))
    /\ RLt(CenterY(b), Rat(8 * footer_bottom, 10))
    /\ ~ContainsLabel(b, headers)
    /\ ~ContainsLabel(b, footers)
InItemBand(b, header_top, footer_bottom) ==
    /\ RLt(Rat(12 * header_top, 10), CenterY(b))
    /\ RLt(CenterY(b), Rat(8 * footer_bottom, 10))

\* (edges[i] + edges[i+1]) / 2
Mid(a, b) == Rat(a.n * b.d + b.n * a.d, 2 * a.d * b.d)
Centers(edges, n) == [i \in 1..n |-> Mid(edges[i], edges[i + 1])]

\* min(centers, key=lambda r: abs(c - r)): the first center at the least distance
NearestSigned(centers, c) ==
    LET key(i) == Rat(c.n * centers[i].d - centers[i].n * c.d, c.d * centers[i].d)
        i == CHOOSE i \in 1..Len(centers) :
                 /\ \A j \in 1..Len(centers) : RLe(key(i), key(j))
                 /\ \A j \in 1..(i - 1) : RLt(key(i), key(j))
    IN centers[i]
Nearest(centers, c) ==
    LET i == CHOOSE i \in 1..Len(centers) :
                 /\ \A j \in 1..Len(centers) : RLe(RDist(c, centers[i]), RDist(c, centers[j]))
                 /\ \A j \in 1..(i - 1) : RLt(RDist(c, centers[i]), RDist(c, centers[j]))
    IN centers[i]

EmptyMin == "ValueError: min() arg is an empty sequence"
EmptyMax == "ValueError: max() arg is an empty sequence"

\* lines 146-151 and 153: the column edges
ColEdgesOfLabels(boxes, hs) ==
    LET all_x == [i \in 1..(4 * Len(boxes)) |-> boxes[((i - 1) \div 4) + 1].coords[((i - 1) % 4) + 1][1]]
    IN Linspace(MinSeq(all_x), MaxSeq(all_x), Len(hs) + 1)
ColEdges(boxes, hs) ==
    LET header_boxes == SeqOfSet(HeaderBoxes(boxes, hs))
        all_x == [i \in 1..(4 * Len(boxes)) |-> boxes[((i - 1) \div 4) + 1].coords[((i - 1) % 4) + 1][1]]
    IN IF header_boxes # <<>>
       THEN LET lefts == [i \in 1..Len(header_boxes) |-> MinSeq(Xs(boxes[header_boxes[i]]))]
                right == MaxSeq([i \in 1..Len(header_boxes) |-> MaxSeq(Xs(boxes[header_boxes[i]]))])
                edges == Sorted(Append(lefts, right))
            IN [i \in 1..Len(edges) |-> Rat(edges[i], 1)]
       ELSE Linspace(MinSeq(all_x), MaxSeq(all_x), Len(hs) + 1)

\* lines 160-166: the row edges between header_top and footer_bottom
RowsOf(boxes, header_top, footer_bottom) ==
    LET band == {i \in 1..Len(boxes) : InItemBand(boxes[i], header_top, footer_bottom)}
        raw_item_rows == SortedSet({Round3(CenterY(boxes[i])) : i \in band})
        item_rows == cluster_rows(raw_item_rows, RowTol)
        n_items == Len(item_rows)
        n_rows == 1 + n_items + 1
    IN [band |-> band, raw_item_rows |-> raw_item_rows, item_rows |-> item_rows,
        n_items |-> n_items, n_rows |-> n_rows,
        row_edges |-> Linspace(header_top, footer_bottom, n_rows + 1)]

\* lines 141-183: everything before the loop over the boxes
Reconstruct(boxes, hs, fs) ==
    IF boxes = <<>> THEN [kind |-> "raised", error |-> EmptyMin, at |-> "x_min"]
    ELSE LET for_top == LabelBoxes(boxes, hs)
             for_bottom == LabelBoxes(boxes, fs)
         IN IF for_top = {} THEN [kind |-> "raised", error |-> EmptyMin, at |-> "header_top"]
            ELSE IF for_bottom = {}
            THEN [kind |-> "raised", error |-> EmptyMax, at |-> "footer_bottom"]
            ELSE LET col_edges == ColEdges(boxes, hs)
                     n_cols == Len(col_edges) - 1
                     header_top == MinSeq([i \in 1..Len(SeqOfSet(for_top)) |->
                                              MinSeq(Ys(boxes[SeqOfSet(for_top)[i]]))])
                     footer_bottom == MaxSeq([i \in 1..Len(SeqOfSet(for_bottom)) |->
                                              MaxSeq(Ys(boxes[SeqOfSet(for_bottom)[i]]))])
                     rows == RowsOf(boxes, header_top, footer_bottom)
                 IN [kind |-> "grid",
                     header_boxes |-> HeaderBoxes(boxes, hs),
                     top_boxes |-> for_top, bottom_boxes |-> for_bottom,
                     col_edges |-> col_edges, n_cols |-> n_cols,
                     header_top |-> header_top, footer_bottom |-> footer_bottom,
                     band |-> rows.band, raw_item_rows |-> rows.raw_item_rows,
                     item_rows |-> rows.item_rows, n_items |-> rows.n_items,
                     n_rows |-> rows.n_rows, row_edges |-> rows.row_edges,
                     row_centers |-> Centers(rows.row_edges, rows.n_rows),
                     col_centers |-> Centers(col_edges, n_cols)]


GridBoxChoices ==
    { MkBox(<<"T", "o">>, Quad(100, 100, 300, 130)),
      MkBox(<<"u">>, Quad(300, 100, 500, 130)),
      MkBox(<<"T">>, Quad(500, 100, 700, 130)),
      MkBox(<<"t", "o", "c">>, Quad(100, 430, 300, 460)),
      MkBox(<<"c">>, Quad(300, 430, 500, 460)),
      MkBox(<<"c">>, Quad(100, 10, 300, 40)),
      MkBox(<<"9">>, Quad(100, 200, 300, 230)),
      MkBox(<<"9">>, <<Pt(300, 210), Pt(500, 212), Pt(500, 241), Pt(300, 240)>>),
      MkBox(<<"9">>, Quad(100, 265, 300, 295)),
      MkBox(<<"T", "o">>, Quad(100, 100, 100, 220)),
      MkBox(<<>>, Quad(300, 300, 500, 330)) }

HeaderChoices == { <<>>, << <<"T", "o">> >>, << <<"T", "o">>, <<"U">> >> }
FooterChoices == { <<>>, << <<"C">> >> }

GridInit ==
    /\ g_boxes \in SeqsUpTo(GridBoxChoices, MaxGridBoxes)
    /\ headers \in HeaderChoices
    /\ footers \in FooterChoices
    /\ grid = [kind |-> "none"]
    /\ gk = 1
    /\ placed = <<>>
    /\ g_pc = "call"

\* lines 141-183
GridCompute ==
    /\ g_pc = "call"
    /\ grid' = Reconstruct(g_boxes, headers, footers)
    /\ g_pc' = IF grid'.kind = "raised" THEN "done" ELSE "place"
    /\ UNCHANGED <<g_boxes, headers, footers, gk, placed>>
    /\ UNCHANGED <<clusterVars, loadVars, correctVars>>

\* lines 185-188: one iteration of the loop over the boxes
GridPlace ==
    /\ g_pc = "place"
    /\ gk <= Len(g_boxes)
    /\ placed' = Append(placed,
                        [nearest_row |-> Nearest(grid.row_centers, CenterY(g_boxes[gk])),
                         nearest_col |-> Nearest(grid.col_centers, CenterX(g_boxes[gk]))])
    /\ gk' = gk + 1
    /\ UNCHANGED <<g_boxes, headers, footers, grid, g_pc>>
    /\ UNCHANGED <<clusterVars, loadVars, correctVars>>

\* the function ends after the loop
GridReturn ==
    /\ g_pc = "place"
    /\ gk > Len(g_boxes)
    /\ g_pc' = "done"
    /\ UNCHANGED <<g_boxes, headers, footers, grid, gk, placed>>
    /\ UNCHANGED <<clusterVars, loadVars, correctVars>>

GridNext == GridCompute \/ GridPlace \/ GridReturn

\* ------------------------------------------------------------ specifications
ClusterIdle ==
    /\ y_values = <<>> /\ tol = 0 /\ yi = 0 /\ current_group = <<>>
    /\ clustered = <<>> /\ cl_pc = "idle"
LoadIdle ==
    /\ raw_blocks = <<>> /\ li = 1 /\ ld_boxes = <<>>
    /\ ld_result = [kind |-> "running"] /\ ld_pc = "idle"
CorrectIdle ==
    /\ cs_boxes = <<>> /\ cs_given = <<>> /\ slope_sums = [q \in 0..3 |-> 0]
    /\ weight_sums = [q \in 0..3 |-> 0] /\ ck = 1 /\ corrected = <<>> /\ cs_pc = "idle"
GridIdle ==
    /\ g_boxes = <<>> /\ headers = <<>> /\ footers = <<>> /\ grid = [kind |-> "none"]
    /\ gk = 1 /\ placed = <<>> /\ g_pc = "idle"

\* cluster_rows on every list of values and tolerance within the bounds
InitCluster == ClusterInit /\ LoadIdle /\ CorrectIdle /\ GridIdle
SpecCluster == InitCluster /\ [][ClusterNext]_vars

\* load_ocr_json on every batch of blocks within the bounds
InitLoad == LoadInit /\ ClusterIdle /\ CorrectIdle /\ GridIdle
SpecLoad == InitLoad /\ [][LoadNext]_vars

\* correct_slope on every list of boxes within the bounds
InitCorrect == CorrectInit /\ ClusterIdle /\ LoadIdle /\ GridIdle
SpecCorrect == InitCorrect /\ [][CorrectNext]_vars

\* plot_table_grid_auto on every list of boxes and label lists within the bounds
InitGrid == GridInit /\ ClusterIdle /\ LoadIdle /\ CorrectIdle
SpecGrid == InitGrid /\ [][GridNext]_vars

\* ------------------------------------------------------------------ claims

\* ---- cluster_rows (SpecCluster)

\* |y - mean(g)| and t, both multiplied by len(g), from the values themselves
C_Dist(y, g) == Abs(y * Len(g) - SumSeq(g))
C_Tol(t, g) == t * Len(g)

\* C6: at every step of the loop of cluster_rows, a value whose distance from the
\* running mean of the open group is exactly tol (or less) is added to the group
\* and nothing is emitted; a value further away closes the group, emits its mean
\* and opens a group that holds only that value.
C6_Boundary ==
    [][(cl_pc = "loop" /\ yi <= Len(y_values) /\ yi' = yi + 1) =>
        LET y == y_values[yi]
            g == current_group
        IN /\ C_Dist(y, g) <= C_Tol(tol, g) =>
                  current_group' = Append(g, y) /\ clustered' = clustered
           /\ C_Dist(y, g) > C_Tol(tol, g) =>
                  /\ current_group' = <<y>>
                  /\ Len(clustered') = Len(clustered) + 1
                  /\ SubSeq(clustered', 1, Len(clustered)) = clustered
                  /\ clustered'[Len(clustered')].n * Len(g) = SumSeq(g) * clustered'[Len(clustered')].d
      ]_vars

\* C6 witness: a group was closed earlier and the value added last to the open
\* group lay at distance exactly tol > 0 from the mean of the values before it.
C6_Witness ==
    /\ cl_pc = "loop"
    /\ tol > 0
    /\ clustered # <<>>
    /\ Len(current_group) >= 2
    /\ LET g == SubSeq(current_group, 1, Len(current_group) - 1)
           y == current_group[Len(current_group)]
       IN C_Dist(y, g) = C_Tol(tol, g)

\* the first input position of the i-th emitted group, from the group sizes
RECURSIVE C_GroupStart(_, _)
C_GroupStart(c, i) == IF i = 1 THEN 1 ELSE C_GroupStart(c, i - 1) + c[i - 1].d

\* C10: for an input sorted ascending and tol >= 0, the output of cluster_rows is
\* empty iff the input is, holds between 1 and len(input) values otherwise, is
\* strictly ascending with consecutive values more than tol apart, and its groups
\* are consecutive runs of the input that cover it exactly once (the last open
\* group included).
C10_Output ==
    (cl_pc = "done" /\ IsSortedSeq(y_values)) =>
        /\ (clustered = <<>>) <=> (y_values = <<>>)
        /\ y_values # <<>> => (1 <= Len(clustered) /\ Len(clustered) <= Len(y_values))
        /\ \A i \in 1..(Len(clustered) - 1) :
               /\ RLt(clustered[i], clustered[i + 1])
               /\ clustered[i + 1].n * clustered[i].d - clustered[i].n * clustered[i + 1].d
                      > tol * clustered[i].d * clustered[i + 1].d
        /\ \A i \in 1..Len(clustered) :
               /\ clustered[i].d >= 1
               /\ C_GroupStart(clustered, i) + clustered[i].d - 1 <= Len(y_values)
               /\ clustered[i].n = SumSeq(SubSeq(y_values, C_GroupStart(clustered, i),
                                                 C_GroupStart(clustered, i) + clustered[i].d - 1))
        /\ clustered # <<>> =>
               C_GroupStart(clustered, Len(clustered)) + clustered[Len(clustered)].d - 1
                   = Len(y_values)

\* C10 witness: a sorted input gave several groups, one of them of several values
C10_Witness ==
    /\ cl_pc = "done"
    /\ IsSortedSeq(y_values)
    /\ tol > 0
    /\ Len(clustered) >= 2
    /\ \E i \in 1..Len(clustered) : clustered[i].d >= 2

\* ---- load_ocr_json (SpecLoad)

\* a record with neither a 4-point coords field nor all of x0, y0, x1, y1
C_Malformed(blk) ==
    /\ ~("coords" \in blk.keys /\ Len(blk.coords) = 4)
    /\ ~({"x0", "y0", "x1", "y1"} \subseteq blk.keys)

C_BadRecords == {i \in 1..Len(raw_blocks) : C_Malformed(raw_blocks[i])}

\* C2: when a batch holds a malformed record, load_ocr_json never gets past it:
\* the call ends by raising the format error that carries the first such record,
\* and returns no boxes, those of the well-formed records before it included.
C2_AbortsBatch ==
    /\ ld_pc = "loop" => \A i \in C_BadRecords : i >= li
    /\ (ld_pc = "done" /\ C_BadRecords # {}) =>
           /\ ld_result.kind = "raised"
           /\ ld_result.error = "ValueError: Unrecognized OCR block format"
           /\ ld_result.index \in C_BadRecords
           /\ \A i \in C_BadRecords : ld_result.index <= i
           /\ ld_result.blk = raw_blocks[ld_result.index]
           /\ ld_result.value = NoValue

\* C2 witness: the call raised on a malformed record that followed well-formed
\* ones, whose boxes had already been built
C2_Witness ==
    /\ ld_pc = "done"
    /\ ld_result.kind = "raised"
    /\ ld_result.index >= 2
    /\ Len(ld_boxes) = ld_result.index - 1
    /\ ld_result.index < Len(raw_blocks)

\* ---- correct_slope (SpecCorrect)

\* C3: correct_slope returns as many boxes as it was given, the i-th with the
\* text of the i-th input box, and the list it was given and the coords of its
\* boxes are at every point of the call what they were at the call.
C3_Frame ==
    /\ cs_pc # "idle" => cs_boxes = cs_given
    /\ cs_pc = "done" =>
           /\ Len(corrected) = Len(cs_given)
           /\ \A i \in 1..Len(cs_given) : corrected[i].text = cs_given[i].text

\* C3 witness: a call on several boxes returned, and turned at least one of them
C3_Witness ==
    /\ cs_pc = "done"
    /\ Len(cs_given) >= 2
    /\ \E i \in 1..Len(cs_given) : corrected[i].coords # cs_given[i].coords

\* ---- plot_table_grid_auto (SpecGrid)

C_Low(t) == LowerText(t)
\* containment of the lower-cased text in the lower-cased label, or the reverse
C_EitherWay(b, labels) ==
    \E i \in 1..Len(labels) : \/ IsSubstr(C_Low(b.text), C_Low(labels[i]))
                              \/ IsSubstr(C_Low(labels[i]), C_Low(b.text))
\* a non-empty text contained in some label
C_TextInLabel(b, labels) ==
    /\ b.text # <<>>
    /\ \E i \in 1..Len(labels) : IsSubstr(C_Low(b.text), C_Low(labels[i]))
C_LabelInText(b, labels) ==
    \E i \in 1..Len(labels) : IsSubstr(C_Low(labels[i]), C_Low(b.text))

C_Boxes == 1..Len(g_boxes)
C_Called == g_pc \in {"place", "done"}

\* C1: a call on some boxes with headers of which no label matches any box (in
\* either direction), or with footers of which none does, ends in the distinct
\* error ReconstructionError: neither a grid nor an undifferentiated failure.
C1_DistinctError ==
    (/\ C_Called
     /\ g_boxes # <<>> /\ headers # <<>> /\ footers # <<>>
     /\ \/ \A i \in C_Boxes : ~C_EitherWay(g_boxes[i], headers)
        \/ \A i \in C_Boxes : ~C_EitherWay(g_boxes[i], footers)) =>
        /\ grid.kind = "raised"
        /\ grid.error = "ReconstructionError"

\* C8: the boxes used as header boxes for the column edges and the boxes used for
\* header_top are the same set: the boxes whose lower-cased text contains, or is
\* contained in, a lower-cased label of headers.
C8_OneHeaderRule ==
    grid.kind = "grid" =>
        /\ grid.header_boxes = {i \in C_Boxes : C_EitherWay(g_boxes[i], headers)}
        /\ grid.top_boxes = {i \in C_Boxes : C_EitherWay(g_boxes[i], headers)}

\* the boxes that count as header boxes for the column edges
C_HeaderBoxes == {i \in C_Boxes : C_TextInLabel(g_boxes[i], headers)}

\* C4 as stated: when every label of headers is matched by at least one (header)
\* box, the grid has exactly len(headers) + 1 column edges.
C4_LabelCount ==
    (/\ grid.kind = "grid"
     /\ \A h \in 1..Len(headers) :
            \E i \in C_Boxes : C_TextInLabel(g_boxes[i], <<headers[h]>>)) =>
        Len(grid.col_edges) = Len(headers) + 1

\* C4 amended: the grid has one column edge per header box (a box whose non-empty
\* lower-cased text is contained in a lower-cased label) plus one, and
\* len(headers) + 1 edges when there is no such box; so it has len(headers) + 1
\* edges exactly when the number of header boxes is len(headers) or zero.
C4_HeaderBoxCount ==
    grid.kind = "grid" =>
        /\ Len(grid.col_edges) = IF C_HeaderBoxes = {} THEN Len(headers) + 1
                                 ELSE Cardinality(C_HeaderBoxes) + 1
        /\ (Len(grid.col_edges) = Len(headers) + 1) <=>
               (Cardinality(C_HeaderBoxes) \in {0, Len(headers)})

\* C4 witness: two labels, each matched by exactly one header box, three edges
C4_Witness ==
    /\ grid.kind = "grid"
    /\ Len(headers) = 2
    /\ \A h \in 1..2 :
           Cardinality({i \in C_Boxes : C_TextInLabel(g_boxes[i], <<headers[h]>>)}) = 1
    /\ Cardinality(C_HeaderBoxes) = 2
    /\ Len(grid.col_edges) = 3

C_Ascending(e) == \A i \in 1..(Len(e) - 1) : RLe(e[i], e[i + 1])
C_Descending(e) == \A i \in 1..(Len(e) - 1) : RLe(e[i + 1], e[i])
\* min y of the boxes holding a header label, max y of those holding a footer label
C_Top == CHOOSE y \in {g_boxes[i].coords[c][2] : i \in grid.top_boxes, c \in 1..4} :
             \A i \in grid.top_boxes, c \in 1..4 : y <= g_boxes[i].coords[c][2]
C_Bottom == CHOOSE y \in {g_boxes[i].coords[c][2] : i \in grid.bottom_boxes, c \in 1..4} :
             \A i \in grid.bottom_boxes, c \in 1..4 : y >= g_boxes[i].coords[c][2]

\* C5 as stated: with k item rows from cluster_rows, n_rows = k + 2 and the k + 3
\* row edges are non-decreasing from header_top to footer_bottom.
C5_RowEdges ==
    grid.kind = "grid" =>
        LET k == Len(grid.item_rows)
        IN /\ grid.n_rows = k + 2
           /\ Len(grid.row_edges) = k + 3
           /\ C_Ascending(grid.row_edges)
           /\ REq(grid.row_edges[1], Rat(C_Top, 1))
           /\ REq(grid.row_edges[k + 3], Rat(C_Bottom, 1))

\* C5 amended: with k item rows, n_rows = k + 2 and the k + 3 row edges run evenly
\* from header_top to footer_bottom: non-decreasing when header_top <=
\* footer_bottom, and decreasing when the footer boxes lie above the header boxes.
C5_RowEdgesMonotone ==
    grid.kind = "grid" =>
        LET k == Len(grid.item_rows)
        IN /\ grid.n_rows = k + 2
           /\ Len(grid.row_edges) = k + 3
           /\ C_Top <= C_Bottom => C_Ascending(grid.row_edges)
           /\ C_Top > C_Bottom => C_Descending(grid.row_edges) /\ ~C_Ascending(grid.row_edges)
           /\ REq(grid.row_edges[1], Rat(C_Top, 1))
           /\ REq(grid.row_edges[k + 3], Rat(C_Bottom, 1))
           /\ \A i \in 1..(k + 1) :
                  grid.row_edges[i + 1].n * grid.row_edges[i].d * grid.row_edges[i + 2].d * 2
                      = (grid.row_edges[i].n * grid.row_edges[i + 2].d
                         + grid.row_edges[i + 2].n * grid.row_edges[i].d) * grid.row_edges[i + 1].d

\* C5 witness: a grid with two item rows between a header above and a footer below
C5_Witness ==
    /\ grid.kind = "grid"
    /\ Len(grid.item_rows) >= 2
    /\ C_Top < C_Bottom
    /\ Len(grid.row_edges) = Len(grid.item_rows) + 3

\* the index a center value stands for: its first position in the list of centers
C_IndexOf(centers, v) ==
    CHOOSE i \in 1..Len(centers) :
        /\ REq(centers[i], v)
        /\ \A j \in 1..(i - 1) : ~REq(centers[j], v)
\* box b lies exactly on the center of row i and of column j
C_OnCenter(b, i, j) ==
    /\ REq(CenterY(g_boxes[b]), grid.row_centers[i])
    /\ REq(CenterX(g_boxes[b]), grid.col_centers[j])

\* C7 as stated: a box on the center of row i and column j is assigned row index i
\* and column index j, duplicate column edges included.
C7_OwnIndex ==
    grid.kind = "grid" =>
        \A b \in 1..Len(placed), i \in 1..grid.n_rows, j \in 1..grid.n_cols :
            C_OnCenter(b, i, j) =>
                /\ C_IndexOf(grid.row_centers, placed[b].nearest_row) = i
                /\ C_IndexOf(grid.col_centers, placed[b].nearest_col) = j

\* C7 amended: a box on the center of row i and column j is placed at exactly that
\* row center and column center; the index this stands for is i (j), or, when
\* duplicate edges make earlier centers coincide with it, the first of those.
C7_OwnCenter ==
    grid.kind = "grid" =>
        \A b \in 1..Len(placed), i \in 1..grid.n_rows, j \in 1..grid.n_cols :
            C_OnCenter(b, i, j) =>
                /\ REq(placed[b].nearest_row, grid.row_centers[i])
                /\ REq(placed[b].nearest_col, grid.col_centers[j])
                /\ C_IndexOf(grid.row_centers, placed[b].nearest_row) <= i
                /\ C_IndexOf(grid.col_centers, placed[b].nearest_col) <= j
                /\ (\A r \in 1..(i - 1) : ~REq(grid.row_centers[r], grid.row_centers[i]))
                       => C_IndexOf(grid.row_centers, placed[b].nearest_row) = i
                /\ (\A c \in 1..(j - 1) : ~REq(grid.col_centers[c], grid.col_centers[j]))
                       => C_IndexOf(grid.col_centers, placed[b].nearest_col) = j

\* C7 witness: a placed box lies on the center of a row that is not the first, in
\* a grid of several rows whose centers differ
C7_Witness ==
    /\ g_pc = "done"
    /\ grid.kind = "grid"
    /\ \E b \in 1..Len(placed), i \in 2..grid.n_rows, j \in 1..grid.n_cols :
           /\ C_OnCenter(b, i, j)
           /\ ~REq(grid.row_centers[i - 1], grid.row_centers[i])

\* the center of box b lies strictly between header_top*1.2 and footer_bottom*0.8
C_InBand(b) ==
    /\ 12 * C_Top * 4 < 10 * SumSeq(Ys(g_boxes[b]))
    /\ 10 * SumSeq(Ys(g_boxes[b])) < 8 * C_Bottom * 4

\* C9 as stated: no box whose center lies in the band holds a header label or a
\* footer label.
C9_BodyOnly ==
    grid.kind = "grid" =>
        \A b \in C_Boxes :
            C_InBand(b) => /\ ~C_LabelInText(g_boxes[b], headers)
                           /\ ~C_LabelInText(g_boxes[b], footers)

\* C9 amended: the item-row candidates are the rounded vertical centers of all the
\* boxes whose center lies strictly between header_top*1.2 and footer_bottom*0.8,
\* header and footer boxes among them; a header or footer box stays out only
\* when its own center lies outside the band.
C9_BandOnly ==
    grid.kind = "grid" =>
        /\ grid.band = {b \in C_Boxes : C_InBand(b)}
        /\ {grid.raw_item_rows[i] : i \in 1..Len(grid.raw_item_rows)}
               = {Round3(CenterY(g_boxes[b])) : b \in {c \in C_Boxes : C_InBand(c)}}
        /\ \A i \in 1..(Len(grid.raw_item_rows) - 1) :
               grid.raw_item_rows[i] < grid.raw_item_rows[i + 1]

\* C9 witness: one header box in the band, counted, and one outside it, not counted
C9_Witness ==
    /\ grid.kind = "grid"
    /\ \E b \in grid.band : C_LabelInText(g_boxes[b], headers)
    /\ \E b \in C_Boxes \ grid.band : C_LabelInText(g_boxes[b], headers)
    /\ grid.n_items >= 1

=============================================================================
